---------------------------- MODULE Spec2Model ----------------------------
(***************************************************************************)
(* Verification model of IntegratedFriedmann.ipynb: aDot, the Euler        *)
(* integrator integrateFriedmann, equalityAs and the interactive plotAT.   *)
(*                                                                         *)
(* Python floats are modelled as binary floating-point numbers             *)
(* m * 2^e with a MantBits-bit significand, unbounded exponent and         *)
(* round-to-nearest-even after every operation, so that rounding and       *)
(* absorption (t - dt = t for a small dt) happen as they do in the         *)
(* 53-bit doubles of the program.  A value of Python type complex (the     *)
(* result of a negative float ** 0.5) is the opaque value CX.              *)
(***************************************************************************)
EXTENDS Integers, Sequences, FiniteSets, TLC

VARIABLES
    pc,          \* control point of the running function
    Omegas,      \* integrateFriedmann: argument Omegas (floats)
    Ws,          \* integrateFriedmann: argument Ws, each stored as 3 * w
    nT,          \* integrateFriedmann: argument nT
    i,           \* loop index of the running for loop
    ForwardAs, ForwardTs, BackwardAs, BackwardTs,
    Ts, As,      \* the merged series
    sliders,     \* plotAT: the six widget values
    plot,        \* plotAT: what the last call computed
    eqIn, eqOut  \* equalityAs over exact reals: arguments and result

vars == <<pc, Omegas, Ws, nT, i, ForwardAs, ForwardTs, BackwardAs, BackwardTs,
          Ts, As, sliders, plot, eqIn, eqOut>>

integVars == <<Omegas, Ws, nT, i, ForwardAs, ForwardTs, BackwardAs,
               BackwardTs, Ts, As>>

\* Width of the significand of the modelled floats.
MantBits == 8

\* Largest number of components passed to equalityAs directly.
MaxComponents == 3

\* Largest nT passed to integrateFriedmann directly.
MaxNT == 40

\* The nT that plotAT's call of integrateFriedmann runs with.
DefaultNT == 2

-----------------------------------------------------------------------------
(* Floating-point kernel *)

Abs(n) == IF n < 0 THEN -n ELSE n

Sgn(n) == IF n < 0 THEN -1 ELSE IF n = 0 THEN 0 ELSE 1

Pow2(n) == 2 ^ n

\* number of binary digits of n, 0 <= n < 2^31
BitLen(n) ==
    IF n = 0 THEN 0
    ELSE CHOOSE b \in 1..31 : Pow2(b - 1) <= n /\ (b = 31 \/ n < Pow2(b))

Flt(m, e) == [k |-> "f", m |-> m, e |-> e]

CX == [k |-> "cx", m |-> 0, e |-> 0]

Zero == Flt(0, 0)

IsCx(x) == x.k = "cx"

IsZero(x) == x.k = "f" /\ x.m = 0

\* n >= 0 shifted right by s bits, rounded to nearest, ties to even
RoundShift(n, s) ==
    IF s = 0 THEN n
    ELSE LET q    == n \div Pow2(s)
             r    == n % Pow2(s)
             half == Pow2(s - 1)
         IN  IF r > half \/ (r = half /\ q % 2 = 1) THEN q + 1 ELSE q

\* the float nearest to sg * n * 2^e  (n >= 0)
Normalize(sg, n, e) ==
    IF n = 0 THEN Zero
    ELSE LET L == BitLen(n)
         IN  IF L <= MantBits
             THEN Flt(sg * n * Pow2(MantBits - L), e - (MantBits - L))
             ELSE LET s == L - MantBits
                      q == RoundShift(n, s)
                  IN  IF q = Pow2(MantBits)
                      THEN Flt(sg * Pow2(MantBits - 1), e + s + 1)
                      ELSE Flt(sg * q, e + s)

FromInt(n) == Normalize(Sgn(n), Abs(n), 0)

One == FromInt(1)

FNeg(x) == IF IsCx(x) THEN CX ELSE Flt(-x.m, x.e)

FMul(x, y) ==
    IF IsCx(x) \/ IsCx(y) THEN CX
    ELSE Normalize(Sgn(x.m) * Sgn(y.m), Abs(x.m) * Abs(y.m), x.e + y.e)

\* x / y for y # 0 (Python raises ZeroDivisionError before dividing by 0.0)
FDiv(x, y) ==
    IF IsCx(x) \/ IsCx(y) THEN CX
    ELSE LET n  == Abs(x.m) * Pow2(MantBits + 1)
             d  == Abs(y.m)
             q  == n \div d
             st == IF n % d = 0 THEN 0 ELSE 1
         IN  Normalize(Sgn(x.m) * Sgn(y.m), 2 * q + st,
                       x.e - y.e - (MantBits + 2))

FAdd(x, y) ==
    IF IsCx(x) \/ IsCx(y) THEN CX
    ELSE IF x.m = 0 THEN y
    ELSE IF y.m = 0 THEN x
    ELSE LET hi == IF x.e >= y.e THEN x ELSE y
             lo == IF x.e >= y.e THEN y ELSE x
             d  == hi.e - lo.e
             n  == IF d > MantBits + 2
                   THEN hi.m * Pow2(MantBits + 2) + Sgn(lo.m)
                   ELSE hi.m * Pow2(d) + lo.m
             e  == IF d > MantBits + 2 THEN hi.e - (MantBits + 2) ELSE lo.e
         IN  Normalize(Sgn(n), Abs(n), e)

FSub(x, y) == FAdd(x, FNeg(y))

\* x < y on floats
FLess(x, y) == FSub(x, y).m < 0

RECURSIVE ISqrtSearch(_, _, _)
ISqrtSearch(n, lo, hi) ==
    IF lo = hi THEN lo
    ELSE LET mid == (lo + hi + 1) \div 2
         IN  IF mid * mid <= n THEN ISqrtSearch(n, mid, hi)
                               ELSE ISqrtSearch(n, lo, mid - 1)

\* x ** 0.5 : complex for a negative float
FSqrt(x) ==
    IF IsCx(x) THEN CX
    ELSE IF x.m < 0 THEN CX
    ELSE IF x.m = 0 THEN Zero
    ELSE LET k  == IF (x.e - (MantBits + 2)) % 2 = 0
                   THEN MantBits + 2 ELSE MantBits + 3
             n  == x.m * Pow2(k)
             s  == ISqrtSearch(n, 0, Pow2(MantBits + 2))
             st == IF s * s = n THEN 0 ELSE 1
         IN  Normalize(1, 2 * s + st, ((x.e - k) \div 2) - 1)

\* x ** n for n >= 0, by repeated squaring
RECURSIVE FPowNat(_, _)
FPowNat(x, n) ==
    IF n = 0 THEN One
    ELSE IF n = 1 THEN x
    ELSE LET h  == FPowNat(x, n \div 2)
             sq == FMul(h, h)
         IN  IF n % 2 = 0 THEN sq ELSE FMul(sq, x)

\* x ** n for an integral exponent n and x # 0
FPowInt(x, n) == IF n >= 0 THEN FPowNat(x, n) ELSE FDiv(One, FPowNat(x, -n))

RECURSIVE ICbrtSearch(_, _, _)
ICbrtSearch(n, lo, hi) ==
    IF lo = hi THEN lo
    ELSE LET mid == (lo + hi + 1) \div 2
         IN  IF mid * mid * mid <= n THEN ICbrtSearch(n, mid, hi)
                                     ELSE ICbrtSearch(n, lo, mid - 1)

\* x ** (2./3.) for x >= 0, the cube root of x * x, within one unit in the
\* last place (as the C library's pow is); complex for a negative float
FPowTwoThirds(x) ==
    IF IsCx(x) THEN CX
    ELSE IF x.m < 0 THEN CX
    ELSE IF x.m = 0 THEN Zero
    ELSE LET k0 == MantBits + 1
             k  == k0 + ((2 * x.e - k0) % 3)
             n  == x.m * x.m * Pow2(k)
             s  == ICbrtSearch(n, 0, Pow2(MantBits + 1) - 1)
             st == IF s * s * s = n THEN 0 ELSE 1
         IN  Normalize(1, 2 * s + st, ((2 * x.e - k) \div 3) - 1)

\* the float nearest to the rational num / den (den > 0)
RationalToFloat(num, den) ==
    IF num = 0 THEN Zero
    ELSE LET need == BitLen(den) + MantBits + 2
             s    == IF BitLen(Abs(num)) >= need THEN 0
                     ELSE need - BitLen(Abs(num))
             n    == Abs(num) * Pow2(s)
             q    == n \div den
             st   == IF n % den = 0 THEN 0 ELSE 1
         IN  Normalize(Sgn(num), 2 * q + st, -s - 1)

\* the float of the decimal literal num/den (0.7 is Dec(7, 10))
Dec(num, den) == RationalToFloat(num, den)

\* 10 ** n for an int n: an int for n >= 0, a float for n < 0; converted
\* to float where it meets one
TenPow(n) == IF n >= 0 THEN FromInt(10 ^ n) ELSE RationalToFloat(1, 10 ^ (-n))


-----------------------------------------------------------------------------
(* aDot and integrateFriedmann *)

\* An equation-of-state parameter w is stored as the integer 3 * w, so that
\* the exponent -3 * (1 + w), which the doubles of the program compute
\* exactly for the w used here (-1, 0, 1/3, 1, 3, 7), is -(3 + 3w).
DensityExponent(w3) == -(3 + w3)

\* One component's density Omega * a ** (-3 * (1 + w))
Density(Omega, w3, a) == FMul(Omega, FPowInt(a, DensityExponent(w3)))

\* Val after the first n iterations of the loop over the components
RECURSIVE ComponentSum(_, _, _, _)
ComponentSum(a, Oms, W3s, n) ==
    IF n = 0 THEN Zero
    ELSE FAdd(ComponentSum(a, Oms, W3s, n - 1), Density(Oms[n], W3s[n], a))

\* Omega0 after the first n iterations of the loop over Omegas
RECURSIVE OmegaTotal(_, _)
OmegaTotal(Oms, n) ==
    IF n = 0 THEN Zero ELSE FAdd(OmegaTotal(Oms, n - 1), Oms[n])

\* (1 - Omega0) / a ** 2
CurvatureTerm(a, Oms) ==
    FDiv(FSub(One, OmegaTotal(Oms, Len(Oms))), FPowInt(a, 2))

\* the value under the square root
FriedmannSum(a, Oms, W3s) ==
    FAdd(ComponentSum(a, Oms, W3s, Len(Oms)), CurvatureTerm(a, Oms))

aDot(a, Oms, W3s) == FMul(FSqrt(FriedmannSum(a, Oms, W3s)), a)

Hundredth == Dec(1, 100)

\* the time step 0.01 * (a / currentaDot), for currentaDot # 0
TimeStep(a, currentaDot) == FMul(Hundredth, FDiv(a, currentaDot))

Last(s) == s[Len(s)]

\* a slip: the derivative is always taken at the starting a
ForwardCurrentA_Stale(FAs) == FAs[1]

\* the a at which the forward loop evaluates the derivative
ForwardCurrentA(FAs) == Last(FAs)

\* the a at which the backward loop evaluates the derivative
BackwardCurrentA(BAs) == Last(BAs)

\* next a and t of the forward loop
ForwardNextA(a, currentaDot, dT) == FAdd(a, FMul(currentaDot, dT))
ForwardNextT(t, dT) == FAdd(t, dT)

\* next a and t of the backward loop
BackwardNextA(a, currentaDot, dT) == FSub(a, FMul(currentaDot, dT))
BackwardNextT(t, dT) == FSub(t, dT)

\* one iteration of the forward loop; err: the division raised
ForwardIteration(FAs, FTs, Oms, W3s) ==
    LET a           == ForwardCurrentA(FAs)
        currentaDot == aDot(a, Oms, W3s)
    IN  IF IsZero(currentaDot)
        THEN [err |-> TRUE, As |-> FAs, Ts |-> FTs]
        ELSE LET foredT == TimeStep(a, currentaDot)
             IN  [err |-> FALSE,
                  As  |-> Append(FAs, ForwardNextA(a, currentaDot, foredT)),
                  Ts  |-> Append(FTs, ForwardNextT(Last(FTs), foredT))]

\* one iteration of the backward loop
BackwardIteration(BAs, BTs, Oms, W3s) ==
    LET a           == BackwardCurrentA(BAs)
        currentaDot == aDot(a, Oms, W3s)
    IN  IF IsZero(currentaDot)
        THEN [err |-> TRUE, As |-> BAs, Ts |-> BTs]
        ELSE LET backdT == TimeStep(a, currentaDot)
             IN  [err |-> FALSE,
                  Ts  |-> Append(BTs, BackwardNextT(Last(BTs), backdT)),
                  As  |-> Append(BAs, BackwardNextA(a, currentaDot, backdT))]

\* a slip: the backward run is copied without being reversed
CollectBackwardItem_Unreversed(B, k) == B[k]

\* the element that iteration k (from 1) of the first collecting loop appends
CollectBackwardItem(B, k) == B[Len(B) + 1 - k]

\* the element that iteration k (from 0) of the second collecting loop appends
CollectForwardItem(F, k) == F[k + 1]

StartList == <<One>>
StartTimes == <<Zero>>

-----------------------------------------------------------------------------
(* integrateFriedmann, one loop iteration per step *)

IntegrateInputs ==
    { [Omegas |-> <<One>>, Ws |-> <<21>>],
      [Omegas |-> <<Dec(7, 10), Dec(3, 10)>>, Ws |-> <<-3, 0>>],
      [Omegas |-> <<FNeg(One)>>, Ws |-> <<9>>],
      [Omegas |-> <<>>, Ws |-> <<>>] }

IntegrateNTs == {0, 1, 2, MaxNT}

NoSliders == [fracL |-> Zero, fracM |-> Zero, logfracR |-> 0, Omega0 |-> Zero,
              radScale |-> Zero, matterScale |-> Zero]

NoPlot == <<>>

NoEq == <<>>

InitIntegrate ==
    /\ \E inp \in IntegrateInputs : Omegas = inp.Omegas /\ Ws = inp.Ws
    /\ nT \in IntegrateNTs
    /\ pc = "forward"
    /\ i = 0
    /\ ForwardAs = StartList
    /\ ForwardTs = StartTimes
    /\ BackwardAs = StartList
    /\ BackwardTs = StartTimes
    /\ Ts = <<>>
    /\ As = <<>>
    /\ sliders = NoSliders
    /\ plot = NoPlot
    /\ eqIn = NoEq
    /\ eqOut = NoEq

ForwardStep ==
    /\ pc = "forward"
    /\ i < nT
    /\ LET r == ForwardIteration(ForwardAs, ForwardTs, Omegas, Ws)
       IN  /\ ForwardAs' = r.As
           /\ ForwardTs' = r.Ts
           /\ pc' = IF r.err THEN "ZeroDivisionError" ELSE pc
    /\ i' = i + 1
    /\ UNCHANGED <<Omegas, Ws, nT, BackwardAs, BackwardTs, Ts, As,
                   sliders, plot, eqIn, eqOut>>

ForwardDone ==
    /\ pc = "forward"
    /\ i = nT
    /\ pc' = "backward"
    /\ i' = 0
    /\ UNCHANGED <<Omegas, Ws, nT, ForwardAs, ForwardTs, BackwardAs,
                   BackwardTs, Ts, As, sliders, plot, eqIn, eqOut>>

BackwardStep ==
    /\ pc = "backward"
    /\ i < nT
    /\ LET r == BackwardIteration(BackwardAs, BackwardTs, Omegas, Ws)
       IN  /\ BackwardAs' = r.As
           /\ BackwardTs' = r.Ts
           /\ pc' = IF r.err THEN "ZeroDivisionError" ELSE pc
    /\ i' = i + 1
    /\ UNCHANGED <<Omegas, Ws, nT, ForwardAs, ForwardTs, Ts, As,
                   sliders, plot, eqIn, eqOut>>

BackwardDone ==
    /\ pc = "backward"
    /\ i = nT
    /\ pc' = "collectBackward"
    /\ i' = 1
    /\ UNCHANGED <<Omegas, Ws, nT, ForwardAs, ForwardTs, BackwardAs,
                   BackwardTs, Ts, As, sliders, plot, eqIn, eqOut>>

CollectBackward ==
    /\ pc = "collectBackward"
    /\ i < Len(BackwardTs) + 1
    /\ Ts' = Append(Ts, CollectBackwardItem(BackwardTs, i))
    /\ As' = Append(As, CollectBackwardItem(BackwardAs, i))
    /\ i' = i + 1
    /\ UNCHANGED <<pc, Omegas, Ws, nT, ForwardAs, ForwardTs, BackwardAs,
                   BackwardTs, sliders, plot, eqIn, eqOut>>

CollectBackwardDone ==
    /\ pc = "collectBackward"
    /\ i = Len(BackwardTs) + 1
    /\ pc' = "collectForward"
    /\ i' = 0
    /\ UNCHANGED <<Omegas, Ws, nT, ForwardAs, ForwardTs, BackwardAs,
                   BackwardTs, Ts, As, sliders, plot, eqIn, eqOut>>

CollectForward ==
    /\ pc = "collectForward"
    /\ i < Len(ForwardTs)
    /\ Ts' = Append(Ts, CollectForwardItem(ForwardTs, i))
    /\ As' = Append(As, CollectForwardItem(ForwardAs, i))
    /\ i' = i + 1
    /\ UNCHANGED <<pc, Omegas, Ws, nT, ForwardAs, ForwardTs, BackwardAs,
                   BackwardTs, sliders, plot, eqIn, eqOut>>

Return ==
    /\ pc = "collectForward"
    /\ i = Len(ForwardTs)
    /\ pc' = "returned"
    /\ UNCHANGED <<Omegas, Ws, nT, i, ForwardAs, ForwardTs, BackwardAs,
                   BackwardTs, Ts, As, sliders, plot, eqIn, eqOut>>

NextIntegrate ==
    \/ ForwardStep
    \/ ForwardDone
    \/ BackwardStep
    \/ BackwardDone
    \/ CollectBackward
    \/ CollectBackwardDone
    \/ CollectForward
    \/ Return

SpecIntegrate == InitIntegrate /\ [][NextIntegrate]_vars


-----------------------------------------------------------------------------
(* Properties of integrateFriedmann *)

IsPositive(x) == x.k = "f" /\ x.m > 0

\* x <= y on floats
FLeq(x, y) == ~IsCx(x) /\ ~IsCx(y) /\ ~FLess(y, x)

\* the step 0.01 * a / aDot(a, Omegas, Ws) written out on the kernel
StepAt(a) == FMul(Hundredth, FDiv(a, aDot(a, Omegas, Ws)))

\* C1: both runs start at the present point (a = 1, t = 0); every forward
\* step appends (t + dt, a + aDot*dt) and every backward step appends
\* (t - dt, a - aDot*dt), with dt = 0.01 * a / aDot(a, Omegas, Ws) taken at
\* the latest a of that run; a run that has finished has made nT steps.
C1_StepsUseCurrentA ==
    /\ ForwardAs[1] = One /\ ForwardTs[1] = Zero
    /\ BackwardAs[1] = One /\ BackwardTs[1] = Zero
    /\ Len(ForwardAs) = Len(ForwardTs)
    /\ Len(BackwardAs) = Len(BackwardTs)
    /\ \A k \in 1..(Len(ForwardAs) - 1) :
          LET a == ForwardAs[k]
          IN  /\ ForwardTs[k + 1] = FAdd(ForwardTs[k], StepAt(a))
              /\ ForwardAs[k + 1] =
                    FAdd(a, FMul(aDot(a, Omegas, Ws), StepAt(a)))
    /\ \A k \in 1..(Len(BackwardAs) - 1) :
          LET a == BackwardAs[k]
          IN  /\ BackwardTs[k + 1] = FSub(BackwardTs[k], StepAt(a))
              /\ BackwardAs[k + 1] =
                    FSub(a, FMul(aDot(a, Omegas, Ws), StepAt(a)))
    /\ (pc = "forward" => Len(ForwardAs) = i + 1)
    /\ (pc = "backward" => Len(BackwardAs) = i + 1 /\ Len(ForwardAs) = nT + 1)
    /\ (pc = "returned" => Len(ForwardAs) = nT + 1 /\ Len(BackwardAs) = nT + 1)

\* C1 witness: a call with several components has made all its steps
C1_Witness ==
    /\ pc = "returned"
    /\ nT = MaxNT
    /\ Len(Omegas) = 2
    /\ Len(ForwardAs) = nT + 1
    /\ Len(BackwardAs) = nT + 1
    /\ ForwardAs[nT + 1] # ForwardAs[nT]

\* aDot was real and positive at every a at which a step was taken
RealPositiveRun ==
    /\ \A k \in 1..(Len(ForwardAs) - 1) :
          IsPositive(aDot(ForwardAs[k], Omegas, Ws))
    /\ \A k \in 1..(Len(BackwardAs) - 1) :
          IsPositive(aDot(BackwardAs[k], Omegas, Ws))

\* (Ts, As) is the backward run reversed followed by the forward run
MergedInOrder ==
    /\ Len(Ts) = 2 * nT + 2
    /\ Len(As) = Len(Ts)
    /\ \A k \in 1..(nT + 1) :
          /\ Ts[k] = BackwardTs[nT + 2 - k]
          /\ As[k] = BackwardAs[nT + 2 - k]
    /\ \A k \in (nT + 2)..(2 * nT + 2) :
          /\ Ts[k] = ForwardTs[k - nT - 1]
          /\ As[k] = ForwardAs[k - nT - 1]
    /\ Ts[nT + 1] = Zero /\ Ts[nT + 2] = Zero
    /\ As[nT + 1] = One /\ As[nT + 2] = One

\* C2 as stated: with aDot real and positive throughout, the returned times
\* increase strictly over every adjacent pair but the junction pair.
C2_StrictlyIncreasing ==
    (pc = "returned" /\ RealPositiveRun) =>
        /\ MergedInOrder
        /\ \A k \in 1..(Len(Ts) - 1) :
              k # nT + 1 => FLess(Ts[k], Ts[k + 1])

\* C2 amended: the returned series is the backward run reversed followed by
\* the forward run, As[k] paired with Ts[k], the two junction samples are
\* the present point, and with aDot real and positive throughout the times
\* never decrease (a step too small for the precision of t leaves t equal).
C2_NonDecreasing ==
    /\ Len(Ts) = Len(As)
    /\ (pc = "returned" => MergedInOrder)
    /\ (pc = "returned" /\ RealPositiveRun =>
           \A k \in 1..(Len(Ts) - 1) : FLeq(Ts[k], Ts[k + 1]))

\* C2 witness: a returned series of a real, positive run in which a late
\* backward step left the time unchanged
C2_Witness ==
    /\ pc = "returned"
    /\ RealPositiveRun
    /\ nT = MaxNT
    /\ Ts[1] = Ts[2]
    /\ FLess(Ts[nT], Ts[nT + 1])
    /\ FLess(As[1], As[2])


-----------------------------------------------------------------------------
(* integrateFriedmann as one call *)

\* the forward loop run for n iterations
RECURSIVE ForwardRun(_, _, _)
ForwardRun(Oms, W3s, n) ==
    IF n = 0 THEN [err |-> FALSE, As |-> StartList, Ts |-> StartTimes]
    ELSE LET prev == ForwardRun(Oms, W3s, n - 1)
         IN  IF prev.err THEN prev
             ELSE ForwardIteration(prev.As, prev.Ts, Oms, W3s)

\* the backward loop run for n iterations
RECURSIVE BackwardRun(_, _, _)
BackwardRun(Oms, W3s, n) ==
    IF n = 0 THEN [err |-> FALSE, As |-> StartList, Ts |-> StartTimes]
    ELSE LET prev == BackwardRun(Oms, W3s, n - 1)
         IN  IF prev.err THEN prev
             ELSE BackwardIteration(prev.As, prev.Ts, Oms, W3s)

\* the two collecting loops: B reversed, then F
Collect(B, F) ==
    [k \in 1..(Len(B) + Len(F)) |->
        IF k <= Len(B) THEN CollectBackwardItem(B, k)
                       ELSE CollectForwardItem(F, k - Len(B) - 1)]

integrateFriedmann(Oms, W3s, n) ==
    LET fwd == ForwardRun(Oms, W3s, n)
        bwd == BackwardRun(Oms, W3s, n)
    IN  IF fwd.err \/ bwd.err
        THEN [err |-> TRUE, Ts |-> <<>>, As |-> <<>>]
        ELSE [err |-> FALSE,
              Ts  |-> Collect(bwd.Ts, fwd.Ts),
              As  |-> Collect(bwd.As, fwd.As)]

-----------------------------------------------------------------------------
(* equalityAs *)

\* the index pairs (i, j) in the order the two nested loops visit them,
\* from position (i, j) on; indices count from 1
RECURSIVE EqualityPairsFrom(_, _, _)
EqualityPairsFrom(ii, jj, n) ==
    IF ii > n THEN <<>>
    ELSE IF jj > n THEN EqualityPairsFrom(ii + 1, ii + 2, n)
    ELSE <<<<ii, jj>>>> \o EqualityPairsFrom(ii, jj + 1, n)

\* a slip: the inner loop of the first row starts at the component itself
EqualityPairs_FromSelf(n) == EqualityPairsFrom(1, 1, n)

EqualityPairs(n) == EqualityPairsFrom(1, 2, n)

\* the label of a pair
EqualityLabel(Names, pr) == Names[pr[1]] \o ", " \o Names[pr[2]]

\* a slip: the two equation-of-state parameters are exchanged
EqualityDivisor_Swapped(w3i, w3j) == -(w3i - w3j)

\* -3 * (Ws[j] - Ws[i]), on the stored 3 * w
EqualityDivisor(w3i, w3j) == -(w3j - w3i)

-----------------------------------------------------------------------------
(* Exact reals *)

(* To decide what the closed form of equalityAs computes, its formula is    *)
(* also evaluated without rounding, on the reals sg * 2^(n/d): a number is  *)
(* its sign sg and the rational n/d (in lowest terms, d > 0), the base-2    *)
(* logarithm of its magnitude.  np.log of a positive number is then the     *)
(* rational n/d in units of ln 2, np.log of a negative number is nan, and   *)
(* np.exp of r units of ln 2 is the positive number 2^r.                    *)

RECURSIVE Gcd(_, _)
Gcd(a, b) == IF b = 0 THEN a ELSE Gcd(b, a % b)

\* the rational n/d in lowest terms, d # 0
Rat(n, d) ==
    LET g == Gcd(Abs(n), Abs(d))
    IN  [n |-> (Sgn(d) * n) \div g, d |-> Abs(d) \div g]

RatAdd(x, y) == Rat(x.n * y.d + y.n * x.d, x.d * y.d)

RatScale(x, c) == Rat(x.n * c, x.d)

XNum(sg, lg) == [k |-> "x", sg |-> sg, lg |-> lg]

\* sg * 2^n
XPow2(sg, n) == XNum(sg, Rat(n, 1))

XZero == XNum(0, Rat(0, 1))

XNaN == [k |-> "nan", sg |-> 0, lg |-> Rat(0, 1)]

XIsZero(x) == x.k = "x" /\ x.sg = 0

XIsNaN(x) == x.k = "nan"

\* x / y, y # 0
XDiv(x, y) ==
    IF XIsNaN(x) \/ XIsNaN(y) THEN XNaN
    ELSE IF XIsZero(x) THEN XZero
    ELSE XNum(x.sg * y.sg, RatAdd(x.lg, RatScale(y.lg, -1)))

XMul(x, y) ==
    IF XIsNaN(x) \/ XIsNaN(y) THEN XNaN
    ELSE IF XIsZero(x) \/ XIsZero(y) THEN XZero
    ELSE XNum(x.sg * y.sg, RatAdd(x.lg, y.lg))

\* x ** n for an integer n and x # 0
XPowInt(x, n) ==
    IF XIsNaN(x) THEN XNaN
    ELSE XNum(IF n % 2 = 0 THEN 1 ELSE x.sg, RatScale(x.lg, n))

\* np.exp(np.log(x) / divisor): nan unless x > 0 and divisor # 0
XExpLogOver(x, divisor) ==
    IF XIsNaN(x) \/ XIsZero(x) \/ x.sg < 0 \/ divisor = 0 THEN XNaN
    ELSE XNum(1, Rat(x.lg.n, x.lg.d * divisor))

\* np.exp(np.log(Omegas[i] / Omegas[j]) / divisor) without rounding
EqualityExact(Oi, Oj, divisor) == XExpLogOver(XDiv(Oi, Oj), divisor)

\* the density law of aDot without rounding: Omega * a ** (-3 * (1 + w))
XDensity(Omega, w3, a) == XMul(Omega, XPowInt(a, DensityExponent(w3)))

-----------------------------------------------------------------------------
(* equalityAs, continued *)

\* On floats np.log and np.exp are left uninterpreted: the value is the term
\* exp(log(ratio) / divisor) over the rounded quotient of the two densities.
EqualityTerm(Oi, Oj, divisor) ==
    [fn |-> "exp(log(ratio)/divisor)", ratio |-> FDiv(Oi, Oj),
     divisor |-> divisor]


\* Omegas[j] == 0 in the arithmetic chosen
EqualityIsZero(x, arith) == IF arith = "exact" THEN XIsZero(x) ELSE IsZero(x)

\* the equality scale factor in the arithmetic chosen
EqualityA(Oi, Oj, divisor, arith) ==
    IF arith = "exact" THEN EqualityExact(Oi, Oj, divisor)
                       ELSE EqualityTerm(Oi, Oj, divisor)

\* equalityAs; arith says which arithmetic evaluates its one formula,
\* np.exp(np.log(Omegas[i] / Omegas[j]) / (-3 * (Ws[j] - Ws[i]))):
\* "float" (as plotAT's call runs it) or "exact" (without rounding, below).
\* A zero Omegas[j] makes the division raise ZeroDivisionError.
equalityAs(Oms, W3s, Names, arith) ==
    LET prs == EqualityPairs(Len(Oms))
    IN  IF \E k \in 1..Len(prs) : EqualityIsZero(Oms[prs[k][2]], arith)
        THEN [err |-> TRUE, As |-> <<>>, labels |-> <<>>]
        ELSE [err    |-> FALSE,
              As     |-> [k \in 1..Len(prs) |->
                            EqualityA(Oms[prs[k][1]], Oms[prs[k][2]],
                                EqualityDivisor(W3s[prs[k][1]],
                                                W3s[prs[k][2]]), arith)],
              labels |-> [k \in 1..Len(prs) |-> EqualityLabel(Names, prs[k])]]

-----------------------------------------------------------------------------
(* plotAT *)

\* a slip: the matter guide-line scale is read in place of fracM
FractionTotal_MatterScale(sl) ==
    FAdd(FAdd(sl.fracL, sl.matterScale), TenPow(sl.logfracR))

\* fracL + fracM + 10**logfracR
FractionTotal(sl) == FAdd(FAdd(sl.fracL, sl.fracM), TenPow(sl.logfracR))

\* OmegaScale, for a nonzero FractionTotal
OmegaScale(sl) == FDiv(sl.Omega0, FractionTotal(sl))

\* the component lists plotAT assembles
Components(sl) ==
    LET sc == OmegaScale(sl)
        L  == IF ~IsZero(sl.fracL)
              THEN <<[Omega |-> FMul(sl.fracL, sc), W |-> -3, Name |-> "L"]>>
              ELSE <<>>
        M  == IF ~IsZero(sl.fracM)
              THEN <<[Omega |-> FMul(sl.fracM, sc), W |-> 0, Name |-> "M"]>>
              ELSE <<>>
        R  == <<[Omega |-> FMul(sc, TenPow(sl.logfracR)), W |-> 1,
                 Name |-> "R"]>>
        cs == L \o M \o R
    IN  [Omegas |-> [k \in 1..Len(cs) |-> cs[k].Omega],
         Ws     |-> [k \in 1..Len(cs) |-> cs[k].W],
         Names  |-> [k \in 1..Len(cs) |-> cs[k].Name]]

\* np.min over a list of floats
RECURSIVE MinOf(_, _)
MinOf(seq, n) ==
    IF n = 1 THEN seq[1]
    ELSE LET m == MinOf(seq, n - 1)
         IN  IF IsCx(m) \/ IsCx(seq[n]) THEN CX
             ELSE IF FLess(seq[n], m) THEN seq[n] ELSE m

\* np.subtract(Ts, np.min(Ts))
ShiftedTimes(T) == [k \in 1..Len(T) |-> FSub(T[k], MinOf(T, Len(T)))]

\* radScale * np.subtract(Ts, np.min(Ts))**0.5
RadiationGuide(sl, T) ==
    LET sh == ShiftedTimes(T)
    IN  [k \in 1..Len(T) |-> FMul(sl.radScale, FSqrt(sh[k]))]

\* matterScale * np.subtract(Ts, np.min(Ts))**(2./3.)
MatterGuide(sl, T) ==
    LET sh == ShiftedTimes(T)
    IN  [k \in 1..Len(T) |-> FMul(sl.matterScale, FPowTwoThirds(sh[k]))]

NoComponents == [Omegas |-> <<>>, Ws |-> <<>>, Names |-> <<>>]

\* what a call computed when an exception ended it: the components c, and
\* the series if integrateFriedmann had returned it
Raised(c, T, A) ==
    [status |-> "ZeroDivisionError", Omegas |-> c.Omegas, Ws |-> c.Ws,
     Names |-> c.Names, Ts |-> T, As |-> A, EAs |-> <<>>,
     Labels |-> <<>>, radLine |-> <<>>, matterLine |-> <<>>]

\* one whole call of plotAT: what it computes, or the exception that ends
\* it (interp1d and the drawing calls are the libraries' and not modelled)
plotAT(sl) ==
    IF IsZero(FractionTotal(sl)) THEN Raised(NoComponents, <<>>, <<>>)
    ELSE LET c   == Components(sl)
             run == integrateFriedmann(c.Omegas, c.Ws, DefaultNT)
         IN  IF run.err THEN Raised(c, <<>>, <<>>)
             ELSE LET eq == equalityAs(c.Omegas, c.Ws, c.Names, "float")
                  IN  IF eq.err THEN Raised(c, run.Ts, run.As)
                      ELSE [status |-> "ok", Omegas |-> c.Omegas,
                            Ws |-> c.Ws, Names |-> c.Names,
                            Ts |-> run.Ts, As |-> run.As,
                            EAs |-> eq.As, Labels |-> eq.labels,
                            radLine |-> RadiationGuide(sl, run.Ts),
                            matterLine |-> MatterGuide(sl, run.Ts)]

\* the defaults of plotAT's parameters, with which interact first calls it
DefaultSliders ==
    [fracL |-> Dec(70, 100), fracM |-> Dec(30, 100), logfracR |-> -4,
     Omega0 |-> Dec(10, 10), radScale |-> Dec(15, 100),
     matterScale |-> Dec(80, 100)]

\* slider positions the model moves between
FracLValues == {Dec(-7, 10), Zero, Dec(70, 100)}
FracMValues == {Dec(-3, 10), Zero, Dec(30, 100)}
LogFracRValues == {-4, 0}
Omega0Values == {Zero, Dec(10, 10), Dec(20, 10)}
RadScaleValues == {Dec(15, 100), Dec(25, 100)}
MatterScaleValues == {Dec(80, 100), Dec(90, 100)}

-----------------------------------------------------------------------------
(* The interactive plot: plotAT run statement by statement *)

(* interact calls plotAT once with the defaults and again whenever a       *)
(* slider is moved; a call runs to its end, or to its exception, before    *)
(* the next slider event is handled.  The call's Omegas, Ws, Ts and As     *)
(* are the variables of that name, and its integrateFriedmann runs in the  *)
(* loop steps above with nT = DefaultNT.                                   *)

\* the locals of a call that has computed nothing yet
BlankPlot ==
    [Names |-> <<>>, EAs |-> <<>>, Labels |-> <<>>, radLine |-> <<>>,
     matterLine |-> <<>>]

InitPlot ==
    /\ pc = "plotAT"
    /\ sliders = DefaultSliders
    /\ plot = BlankPlot
    /\ Omegas = <<>> /\ Ws = <<>> /\ nT = 0 /\ i = 0
    /\ ForwardAs = <<>> /\ ForwardTs = <<>>
    /\ BackwardAs = <<>> /\ BackwardTs = <<>>
    /\ Ts = <<>> /\ As = <<>>
    /\ eqIn = NoEq
    /\ eqOut = NoEq

\* the previous call has ended, normally or by its exception
CallEnded == pc \in {"idle", "ZeroDivisionError"}

\* a slider is moved: interact calls plotAT with the new values
Moved(sl) ==
    /\ CallEnded
    /\ sl # sliders
    /\ sliders' = sl
    /\ plot' = BlankPlot
    /\ pc' = "plotAT"
    /\ Omegas' = <<>> /\ Ws' = <<>> /\ nT' = 0 /\ i' = 0
    /\ ForwardAs' = <<>> /\ ForwardTs' = <<>>
    /\ BackwardAs' = <<>> /\ BackwardTs' = <<>>
    /\ Ts' = <<>> /\ As' = <<>>
    /\ UNCHANGED <<eqIn, eqOut>>

MoveFracL == \E v \in FracLValues : Moved([sliders EXCEPT !.fracL = v])
MoveFracM == \E v \in FracMValues : Moved([sliders EXCEPT !.fracM = v])
MoveLogFracR ==
    \E v \in LogFracRValues : Moved([sliders EXCEPT !.logfracR = v])
MoveOmega0 == \E v \in Omega0Values : Moved([sliders EXCEPT !.Omega0 = v])
MoveRadScale ==
    \E v \in RadScaleValues : Moved([sliders EXCEPT !.radScale = v])
MoveMatterScale ==
    \E v \in MatterScaleValues : Moved([sliders EXCEPT !.matterScale = v])

\* OmegaScale and the component lists, then the call of integrateFriedmann
\* up to its initial lists
Assemble ==
    /\ pc = "plotAT"
    /\ IF IsZero(FractionTotal(sliders))
       THEN /\ pc' = "ZeroDivisionError"
            /\ UNCHANGED <<integVars, plot>>
       ELSE /\ \E c \in {Components(sliders)} :
                  /\ Omegas' = c.Omegas
                  /\ Ws' = c.Ws
                  /\ plot' = [plot EXCEPT !.Names = c.Names]
            /\ nT' = DefaultNT
            /\ i' = 0
            /\ ForwardAs' = StartList
            /\ ForwardTs' = StartTimes
            /\ BackwardAs' = StartList
            /\ BackwardTs' = StartTimes
            /\ pc' = "forward"
            /\ UNCHANGED <<Ts, As>>
    /\ UNCHANGED <<sliders, eqIn, eqOut>>

\* integrateFriedmann has returned: the call of equalityAs
Equalities ==
    /\ pc = "returned"
    /\ \E eq \in {equalityAs(Omegas, Ws, plot.Names, "float")} :
          IF eq.err
          THEN pc' = "ZeroDivisionError" /\ UNCHANGED plot
          ELSE /\ plot' = [plot EXCEPT !.EAs = eq.As, !.Labels = eq.labels]
               /\ pc' = "draw"
    /\ UNCHANGED <<integVars, sliders, eqIn, eqOut>>

\* the curves handed to the plotting library
Draw ==
    /\ pc = "draw"
    /\ plot' = [plot EXCEPT !.radLine = RadiationGuide(sliders, Ts),
                            !.matterLine = MatterGuide(sliders, Ts)]
    /\ pc' = "idle"
    /\ UNCHANGED <<integVars, sliders, eqIn, eqOut>>

NextPlot ==
    \/ MoveFracL
    \/ MoveFracM
    \/ MoveLogFracR
    \/ MoveOmega0
    \/ MoveRadScale
    \/ MoveMatterScale
    \/ Assemble
    \/ ForwardStep
    \/ ForwardDone
    \/ BackwardStep
    \/ BackwardDone
    \/ CollectBackward
    \/ CollectBackwardDone
    \/ CollectForward
    \/ Return
    \/ Equalities
    \/ Draw

SpecPlot == InitPlot /\ [][NextPlot]_vars

\* what the call in progress or just ended has computed
Outcome ==
    [status |-> IF pc = "idle" THEN "ok" ELSE pc,
     Omegas |-> Omegas, Ws |-> Ws, Names |-> plot.Names, Ts |-> Ts,
     As |-> As, EAs |-> plot.EAs, Labels |-> plot.Labels,
     radLine |-> plot.radLine, matterLine |-> plot.matterLine]

-----------------------------------------------------------------------------
(* Properties of plotAT *)

ThreePairs == <<"L, M", "L, R", "M, R">>

OmegaOf(name) ==
    Omegas[CHOOSE k \in 1..Len(plot.Names) : plot.Names[k] = name]

WOf(name) ==
    Ws[CHOOSE k \in 1..Len(plot.Names) : plot.Names[k] = name]

\* the pairs of component names expected for the slider values
ExpectedPairs ==
    IF ~IsZero(sliders.fracL) /\ ~IsZero(sliders.fracM)
    THEN <<<<"L", "M">>, <<"L", "R">>, <<"M", "R">>>>
    ELSE IF ~IsZero(sliders.fracL) THEN <<<<"L", "R">>>>
    ELSE IF ~IsZero(sliders.fracM) THEN <<<<"M", "R">>>>
    ELSE <<>>

C5_DensitiesSumToOmega0 ==
    (pc # "plotAT" /\ ~IsZero(FractionTotal(sliders))) =>
        /\ OmegaTotal(Omegas, Len(Omegas)) = sliders.Omega0
        /\ \A a \in {ForwardAs[k] : k \in 1..Len(ForwardAs)}
                    \cup {BackwardAs[k] : k \in 1..Len(BackwardAs)} :
              /\ CurvatureTerm(a, Omegas) =
                    FDiv(FSub(One, sliders.Omega0), FPowInt(a, 2))
              /\ IsZero(CurvatureTerm(a, Omegas)) <=> (sliders.Omega0 = One)

\* the sliders with the two guide-line scales at their defaults
WithDefaultScales(sl) ==
    [sl EXCEPT !.radScale = DefaultSliders.radScale,
               !.matterScale = DefaultSliders.matterScale]

\* everything a call computes but the two guide lines
Integration(pl) ==
    [status |-> pl.status, Omegas |-> pl.Omegas, Ws |-> pl.Ws,
     Names |-> pl.Names, Ts |-> pl.Ts, As |-> pl.As, EAs |-> pl.EAs,
     Labels |-> pl.Labels]

\* C6: a call of plotAT ends with the same Omegas, Ws, series (Ts, As) and
\* equality scale factors as the call with the same fracL, fracM, logfracR
\* and Omega0 and the default radScale and matterScale; hence any two calls
\* that differ only in radScale and matterScale agree on all of them.
C6_ScalesDoNotAffectIntegration ==
    CallEnded =>
        Integration(Outcome) = Integration(plotAT(WithDefaultScales(sliders)))

\* C6 witness: a completed call with both scales moved, whose two guide
\* lines differ from those of the call with the default scales
C6_Witness ==
    /\ pc = "idle"
    /\ sliders.radScale # DefaultSliders.radScale
    /\ sliders.matterScale # DefaultSliders.matterScale
    /\ plot.radLine # plotAT(WithDefaultScales(sliders)).radLine
    /\ plot.matterLine # plotAT(WithDefaultScales(sliders)).matterLine

-----------------------------------------------------------------------------
(* equalityAs called directly, over exact reals *)

ExactOmegaValues ==
    {XPow2(1, -13), XPow2(1, 0), XPow2(1, 2), XPow2(-1, -1), XZero}

ExactWValues == {-3, 0, 1}

AllNames == <<"A", "B", "C", "D", "E">>

SeqsOf(S, n) == [1..n -> S]

InitEquality ==
    /\ pc = "call"
    /\ \E n \in 0..MaxComponents :
          \E Oms \in SeqsOf(ExactOmegaValues, n) :
             \E W3s \in SeqsOf(ExactWValues, n) :
                eqIn = [Omegas |-> Oms, Ws |-> W3s,
                        Names |-> SubSeq(AllNames, 1, n)]
    /\ eqOut = NoEq
    /\ Omegas = <<>> /\ Ws = <<>> /\ nT = 0 /\ i = 0
    /\ ForwardAs = <<>> /\ ForwardTs = <<>>
    /\ BackwardAs = <<>> /\ BackwardTs = <<>>
    /\ Ts = <<>> /\ As = <<>>
    /\ sliders = NoSliders
    /\ plot = NoPlot

\* one call of equalityAs
EqualityCall ==
    /\ pc = "call"
    /\ eqOut' = equalityAs(eqIn.Omegas, eqIn.Ws, eqIn.Names, "exact")
    /\ pc' = IF eqOut'.err THEN "ZeroDivisionError" ELSE "returned"
    /\ UNCHANGED <<integVars, sliders, plot, eqIn>>

NextEquality == EqualityCall

SpecEquality == InitEquality /\ [][NextEquality]_vars

\* the position in the returned list of the pair (ii, jj), ii < jj
PairPosition(ii, jj, n) ==
    CHOOSE k \in 1..Len(EqualityPairs(n)) : EqualityPairs(n)[k] = <<ii, jj>>

=============================================================================
